---- MODULE Spec2Model ----
(***************************************************************************)
(* Model of setup.py: a script that connects to an Elasticsearch cluster,  *)
(* (re)creates two indices from a mapping file, parses an NDJSON bulk file *)
(* into documents and submits them with elasticsearch.helpers.bulk.        *)
(*                                                                         *)
(* Two specifications:                                                     *)
(*   Spec        main(), one action per step of the script;                *)
(*   SpecParser  parse_ndjson_for_bulk(), one action per loop iteration.   *)
(***************************************************************************)
EXTENDS Integers, Sequences, FiniteSets, TLC

\* Longest NDJSON file (in lines) explored by SpecParser.
MaxLines == 4
\* Longest NDJSON file (in lines) explored by Spec.
MaxFileLines == 4

\* chunk_size passed to elasticsearch.helpers.bulk.
chunk_size == 1000

\* Python's None, and the marker of a key a dict does not have.
None == "None"
Absent == "absent"

ubi_events == "ubi_events"
ubi_queries == "ubi_queries"
IndexNames == {ubi_events, ubi_queries}

(***************************************************************************)
(* JSON values and the lines of the NDJSON file.                           *)
(*                                                                         *)
(* A parsed JSON value is [ty, index, f]: ty is its Python type ("dict"    *)
(* or "list"), index the value under its "index" key and f the rest of     *)
(* its content.  The value under "index" is [ty, _index, _id] with ty      *)
(* "absent" (no such key), "dict" or "num" (a JSON number); _index and     *)
(* _id are strings, or Absent when the inner dict lacks the key.           *)
(*                                                                         *)
(* A line of the file is [text, val]: text is "empty", "ws" (whitespace    *)
(* only), "bad" (not JSON) or "json" (the serialisation of val).           *)
(***************************************************************************)
NoIndex == [ty |-> "absent", _index |-> Absent, _id |-> Absent]
NoVal == [ty |-> "none", index |-> NoIndex, f |-> 0]

ActionVal(idx, id) ==
    [ty |-> "dict", index |-> [ty |-> "dict", _index |-> idx, _id |-> id], f |-> 0]
DocVal(n) == [ty |-> "dict", index |-> NoIndex, f |-> n]
ListVal == [ty |-> "list", index |-> NoIndex, f |-> 0]
NumIndexVal ==
    [ty |-> "dict", index |-> [ty |-> "num", _index |-> Absent, _id |-> Absent], f |-> 0]

EmptyLine == [text |-> "empty", val |-> NoVal]
WsLine == [text |-> "ws", val |-> NoVal]
BadLine == [text |-> "bad", val |-> NoVal]
JsonLine(v) == [text |-> "json", val |-> v]

A1 == JsonLine(ActionVal(ubi_events, "1"))
A2 == JsonLine(ActionVal(ubi_queries, "2"))
D1 == JsonLine(DocVal(1))
D2 == JsonLine(DocVal(2))
ListLine == JsonLine(ListVal)
NumIndexLine == JsonLine(NumIndexVal)

\* The lines SpecParser builds its files from.
LineValues == {EmptyLine, WsLine, BadLine, A1, A2, D1, D2, ListLine, NumIndexLine}
\* The lines Spec builds its NDJSON file from.
FileLineValues == {EmptyLine, BadLine, A1, A2, D1, ListLine}

SeqsUpTo(S, n) == UNION {[1..k -> S] : k \in 0..n}

\* str.strip(): a whitespace-only line becomes the empty string.
strip(line) == IF line.text = "ws" THEN EmptyLine ELSE line

\* json.loads(): JSONDecodeError on the empty string and on malformed text.
json_loads(s) ==
    IF s.text = "json" THEN [ok |-> TRUE, val |-> s.val]
    ELSE [ok |-> FALSE, val |-> NoVal]

\* x.get(...) raises AttributeError unless x is a dict.
HasGet(ty) == ty = "dict"

\* index_action.get('index', {}): the value under "index", or {} when absent.
GetIndexInfo(index_action) ==
    IF index_action.index.ty = "absent"
    THEN [ty |-> "dict", _index |-> Absent, _id |-> Absent]
    ELSE index_action.index

\* dict.get(key): None when the key is absent.
GetOrNone(v) == IF v = Absent THEN None ELSE v

(***************************************************************************)
(* parse_ndjson_for_bulk.  The parser state p is [i, documents, warnings,  *)
(* st]: st is "loop" while scanning and "raised" once an exception other   *)
(* than JSONDecodeError has escaped the loop.                              *)
(***************************************************************************)
ParserStart == [i |-> 0, documents |-> <<>>, warnings |-> <<>>, st |-> "loop"]

\* i += 1 on an empty line (lines 73-75).
SkipEmpty(p) == [p EXCEPT !.i = @ + 1]

\* Mutant of WarnAndSkip: the cursor is not advanced.
WarnNoAdvance(p, what) ==
    [p EXCEPT !.warnings = Append(@, [what |-> what, line |-> p.i + 1])]

\* Warning and i += 1 (lines 94-95 and 97-98).
WarnAndSkip(p, what) ==
    [p EXCEPT !.warnings = Append(@, [what |-> what, line |-> p.i + 1]),
              !.i = @ + 1]

\* The doc dict (lines 85-90).
MakeDoc(index_action, doc_data) ==
    LET index_info == GetIndexInfo(index_action) IN
    [_index |-> GetOrNone(index_info._index),
     _id |-> GetOrNone(index_info._id),
     _source |-> doc_data]

\* Mutant of EmitPair: the document line is not skipped.
EmitPairAdvanceOne(p, doc) ==
    [p EXCEPT !.documents = Append(@, doc), !.i = @ + 1]

\* documents.append(doc); i += 2 (lines 91-92).
EmitPair(p, doc) ==
    [p EXCEPT !.documents = Append(@, doc), !.i = @ + 2]

\* AttributeError leaves the loop for the handler of line 106.
Raise(p) == [p EXCEPT !.st = "raised"]

\* One iteration of the while loop (lines 71-98); lines[i] is ls[p.i + 1].
LoopBody(ls, p) ==
    IF strip(ls[p.i + 1]).text = "empty" THEN SkipEmpty(p)
    ELSE
        LET index_action == json_loads(strip(ls[p.i + 1])) IN
        IF ~index_action.ok THEN WarnAndSkip(p, "invalid_json")
        ELSE IF p.i + 1 < Len(ls) THEN
            LET doc_data == json_loads(strip(ls[p.i + 2])) IN
            IF ~doc_data.ok THEN WarnAndSkip(p, "invalid_json")
            ELSE IF ~HasGet(index_action.val.ty) THEN Raise(p)
            ELSE IF ~HasGet(GetIndexInfo(index_action.val).ty) THEN Raise(p)
            ELSE EmitPair(p, MakeDoc(index_action.val, doc_data.val))
        ELSE WarnAndSkip(p, "missing_document")

RECURSIVE RunLoop(_, _)
RunLoop(ls, p) ==
    IF p.st = "loop" /\ p.i < Len(ls) THEN RunLoop(ls, LoopBody(ls, p)) ELSE p

\* A file on disk: absent, or a sequence of lines.
MissingFile == [exists |-> FALSE, content |-> <<>>]
FileOf(ls) == [exists |-> TRUE, content |-> ls]

\* The whole function: [none, documents, p].  none is TRUE when it returns
\* None (lines 103-108), otherwise documents is the list returned (line 101).
parse_ndjson_for_bulk(file) ==
    IF ~file.exists
    THEN [none |-> TRUE, documents |-> <<>>, p |-> ParserStart]
    ELSE LET p == RunLoop(file.content, ParserStart) IN
         [none |-> p.st = "raised",
          documents |-> IF p.st = "raised" THEN <<>> ELSE p.documents,
          p |-> p]

(***************************************************************************)
(* The cluster.  indices maps each index name to [exists, mapping, docs];  *)
(* docs is the set of document ids it holds.  calls is the log of the      *)
(* calls made on the client, in order: [op, index, res] with res "ok",     *)
(* "false" (ping answered False) or "raised".                              *)
(***************************************************************************)
Mappings == {"m1", "m2"}
NoIndexState == [exists |-> FALSE, mapping |-> None, docs |-> {}]
IndexStates ==
    {NoIndexState} \cup
    {[exists |-> TRUE, mapping |-> m, docs |-> d] : m \in Mappings, d \in {{}, {"1"}}}

Call(op, index, res) == [op |-> op, index |-> index, res |-> res]
Res(raised) == IF raised THEN "raised" ELSE "ok"

\* es.indices.delete (line 50): raises when injected or when the index is absent.
IndicesDelete(ind, name, inject) ==
    LET raised == inject \/ ~ind[name].exists IN
    [indices |-> IF raised THEN ind ELSE [ind EXCEPT ![name] = NoIndexState],
     raised |-> raised]

\* es.indices.create (line 54): raises when injected or when the index exists.
IndicesCreate(ind, name, mapping, inject) ==
    LET raised == inject \/ ind[name].exists IN
    [indices |-> IF raised THEN ind
                 ELSE [ind EXCEPT ![name] =
                          [exists |-> TRUE, mapping |-> mapping, docs |-> {}]],
     raised |-> raised]

\* The faults the cluster can inject into one create_index call.
Faults == {"none", "exists", "delete", "create"}

\* Mutant of DeleteIfExists: an existing index is not deleted.
NeverDelete(ind, name, flt) ==
    [indices |-> ind, raised |-> FALSE, calls |-> <<>>]

\* The delete step of create_index (lines 48-51): only when the index exists.
DeleteIfExists(ind, name, flt) ==
    IF ind[name].exists
    THEN LET d == IndicesDelete(ind, name, flt = "delete") IN
         [indices |-> d.indices, raised |-> d.raised,
          calls |-> <<Call("delete", name, Res(d.raised))>>]
    ELSE [indices |-> ind, raised |-> FALSE, calls |-> <<>>]

\* create_index (lines 44-60): [indices, calls, ret].
create_index(ind, name, mapping, flt) ==
    IF flt = "exists"
    THEN [indices |-> ind, calls |-> <<Call("exists", name, "raised")>>, ret |-> FALSE]
    ELSE
        LET d == DeleteIfExists(ind, name, flt)
            ex == <<Call("exists", name, "ok")>>
        IN
        IF d.raised
        THEN [indices |-> d.indices, calls |-> ex \o d.calls, ret |-> FALSE]
        ELSE
            LET c == IndicesCreate(d.indices, name, mapping, flt = "create") IN
            [indices |-> c.indices,
             calls |-> ex \o d.calls \o <<Call("create", name, Res(c.raised))>>,
             ret |-> ~c.raised]

\* Mutant of Not: only an unset variable counts as missing.
IsNone(v) == v = None

\* `not v` for a value of os.getenv: true for None and for the empty string.
Not(v) == v = None \/ v = ""

\* What the constructor and the ping can do.
ConnectOutcomes == {"construct_raises", "ping_true", "ping_false", "ping_raises"}

\* Mutant of connect_to_elasticsearch: the answer of the ping is not tested.
ConnectIgnoringPing(outcome) ==
    IF outcome = "construct_raises"
    THEN [es |-> None, opened |-> FALSE, calls |-> <<Call("construct", None, "raised")>>]
    ELSE [es |-> IF outcome = "ping_raises" THEN None ELSE "client",
          opened |-> TRUE,
          calls |-> <<Call("construct", None, "ok"),
                      Call("ping", None,
                           CASE outcome = "ping_true" -> "ok"
                             [] outcome = "ping_false" -> "false"
                             [] OTHER -> "raised")>>]

\* connect_to_elasticsearch (lines 23-41): [es, calls, opened].
connect_to_elasticsearch(outcome) ==
    IF outcome = "construct_raises"
    THEN [es |-> None, opened |-> FALSE, calls |-> <<Call("construct", None, "raised")>>]
    ELSE [es |-> IF outcome = "ping_true" THEN "client" ELSE None,
          opened |-> TRUE,
          calls |-> <<Call("construct", None, "ok"),
                      Call("ping", None,
                           CASE outcome = "ping_true" -> "ok"
                             [] outcome = "ping_false" -> "false"
                             [] OTHER -> "raised")>>]

\* The mapping file on disk: missing, not JSON, or a mapping.
MappingFiles == {"missing", "invalid"} \cup Mappings

\* `with open(...) as f` (lines 11-12, 66-67): the handle is open inside the
\* block and closed when the block is left, by return or by exception.
WithOpen(open, name) == (open \cup {name}) \ {name}

\* read_mapping_file (lines 8-20): [exit, mapping].
read_mapping_file(file) ==
    IF file \in Mappings
    THEN [exit |-> FALSE, mapping |-> file]
    ELSE [exit |-> TRUE, mapping |-> None]

(***************************************************************************)
(* elasticsearch.helpers.bulk as called at lines 124-129.  transport_ok    *)
(* is FALSE when the call cannot reach the cluster; rejected is the set of *)
(* positions of the documents the cluster rejects.  The call passes        *)
(* neither raise_on_error nor stats_only, so the helper runs with its      *)
(* defaults: it raises BulkIndexError after the first chunk that holds a   *)
(* rejected document.                                                      *)
(***************************************************************************)
raise_on_error == TRUE

Min(S) == CHOOSE x \in S : \A y \in S : x <= y
ChunkEnd(k, n) ==
    LET e == (((k - 1) \div chunk_size) + 1) * chunk_size IN
    IF e < n THEN e ELSE n

\* [raised, success_count, failed_items, sent]: sent is the number of
\* documents that reached the cluster before the helper returned or raised.
bulk(docs, transport_ok, rejected) ==
    IF ~transport_ok
    THEN [raised |-> TRUE, success_count |-> 0, failed_items |-> {}, sent |-> 0]
    ELSE IF rejected # {} /\ raise_on_error
    THEN [raised |-> TRUE, success_count |-> 0, failed_items |-> {},
          sent |-> ChunkEnd(Min(rejected), Len(docs))]
    ELSE [raised |-> FALSE,
          success_count |-> Len(docs) - Cardinality(rejected),
          failed_items |-> rejected,
          sent |-> Len(docs)]

\* The documents the cluster stores: those sent and not rejected.
IndexDocs(ind, docs, sent, rejected) ==
    [n \in IndexNames |->
        IF ind[n].exists
        THEN [ind[n] EXCEPT !.docs =
                 @ \cup {docs[k]._id : k \in {j \in 1..sent :
                                               j \notin rejected /\ docs[j]._index = n}}]
        ELSE ind[n]]

\* The cluster rejects every document that names no index it holds.
MustReject(docs) == {k \in 1..Len(docs) : docs[k]._index \notin IndexNames}

\* What the cluster does with one bulk submission.
BulkOutcomes(docs) ==
    {[transport_ok |-> t, rejected |-> r] :
        t \in BOOLEAN,
        r \in {x \in SUBSET (1..Len(docs)) : MustReject(docs) \subseteq x}}

NoBulk == [called |-> FALSE, transport_ok |-> TRUE, rejected |-> {}]
NoBulkRet == [raised |-> FALSE, success_count |-> 0, failed_items |-> {}, sent |-> 0]

\* bulk_index_documents (lines 111-143) on the documents the parser returned:
\* [ret, called, result].
bulk_index_documents(parsed, outcome) ==
    IF parsed.none \/ parsed.documents = <<>>
    THEN [ret |-> FALSE, called |-> FALSE, result |-> NoBulkRet]
    ELSE LET r == bulk(parsed.documents, outcome.transport_ok, outcome.rejected) IN
         [ret |-> ~r.raised, called |-> TRUE, result |-> r]

(***************************************************************************)
(* State.                                                                  *)
(*   pc            where main() is: "start", "connect", "read1", "read2",  *)
(*                 "create_events", "create_queries", "bulk", "exited"     *)
(*   exitCode      the process's exit status once pc = "exited", else -1   *)
(*   es_host, api_key   the environment variables                          *)
(*   es            the client main() holds: None or "client"               *)
(*   clientOpen    a client session was constructed and not closed         *)
(*   mappingFile   the mapping file on disk                                *)
(*   ubi_queries_mapping   the mapping main() loaded                       *)
(*   openFiles     the file handles currently open                         *)
(*   indices, calls     the cluster and the log of calls made on it        *)
(*   fault         the fault injected into the latest create_index call    *)
(*   bulkEnv       what the cluster did with the bulk submission           *)
(*   bulkRet       what helpers.bulk returned or raised                    *)
(*   ndjson        the NDJSON file as open() finds it                      *)
(*   ppc           where parse_ndjson_for_bulk is: "idle", "call", "loop", *)
(*                 "returned"                                              *)
(*   lines, i, documents, warnings   the parser's locals                   *)
(*   parsed        what the parser returned: "pending", "None" or "list"   *)
(***************************************************************************)
VARIABLES pc, exitCode, es_host, api_key, es, clientOpen, mappingFile,
          ubi_queries_mapping, openFiles, indices, calls, fault, bulkEnv,
          bulkRet, ndjson, ppc, lines, i, documents, warnings, parsed

mainVars == <<pc, exitCode, es_host, api_key, es, clientOpen, mappingFile,
              ubi_queries_mapping, openFiles, indices, calls, fault, bulkEnv,
              bulkRet>>
parserVars == <<ndjson, ppc, lines, i, documents, warnings, parsed>>
vars == <<mainVars, parserVars>>

EnvValues == {None, "", "set"}

ParserIdle ==
    /\ ndjson = MissingFile
    /\ ppc = "idle"
    /\ lines = <<>>
    /\ i = 0
    /\ documents = <<>>
    /\ warnings = <<>>
    /\ parsed = "pending"

MainStart ==
    /\ pc = "start"
    /\ exitCode = -1
    /\ es = None
    /\ clientOpen = FALSE
    /\ ubi_queries_mapping = None
    /\ openFiles = {}
    /\ calls = <<>>
    /\ fault = "none"
    /\ bulkEnv = NoBulk
    /\ bulkRet = NoBulkRet

Init ==
    /\ MainStart
    /\ es_host \in EnvValues
    /\ api_key \in EnvValues
    /\ mappingFile \in MappingFiles
    /\ indices \in [IndexNames -> IndexStates]
    /\ ParserIdle

\* sys.exit(code)
Exit(code) ==
    /\ pc' = "exited"
    /\ exitCode' = code

\* main(), lines 151-164: the environment variables.
CheckEnv ==
    /\ pc = "start"
    /\ IF Not(es_host) \/ Not(api_key)
       THEN Exit(1)
       ELSE pc' = "connect" /\ UNCHANGED exitCode
    /\ UNCHANGED <<es_host, api_key, es, clientOpen, mappingFile,
                   ubi_queries_mapping, openFiles, indices, calls, fault,
                   bulkEnv, bulkRet, parserVars>>

\* main(), lines 167-169: connect, exit when there is no client.
Connect ==
    /\ pc = "connect"
    /\ \E outcome \in ConnectOutcomes :
          LET r == connect_to_elasticsearch(outcome) IN
          /\ es' = r.es
          /\ clientOpen' = r.opened
          /\ calls' = calls \o r.calls
          /\ IF r.es = None
             THEN Exit(1)
             ELSE pc' = "read1" /\ UNCHANGED exitCode
    /\ UNCHANGED <<es_host, api_key, mappingFile, ubi_queries_mapping,
                   openFiles, indices, fault, bulkEnv, bulkRet, parserVars>>

\* main(), lines 172 and 174: the mapping file is read twice.
ReadMapping(at, next) ==
    /\ pc = at
    /\ LET r == read_mapping_file(mappingFile) IN
          /\ openFiles' = IF mappingFile = "missing" THEN openFiles
                          ELSE WithOpen(openFiles, "mapping")
          /\ IF r.exit
             THEN Exit(1) /\ UNCHANGED ubi_queries_mapping
             ELSE /\ pc' = next
                  /\ ubi_queries_mapping' = r.mapping
                  /\ UNCHANGED exitCode
    /\ UNCHANGED <<es_host, api_key, es, clientOpen, mappingFile, indices,
                   calls, fault, bulkEnv, bulkRet, parserVars>>

\* main(), lines 178-182: create one index, exit when that fails.
CreateIndex(at, name, next) ==
    /\ pc = at
    /\ \E flt \in Faults :
          \* a delete can only fail where one is made
          /\ flt = "delete" => indices[name].exists
          /\ LET r == create_index(indices, name, ubi_queries_mapping, flt) IN
             /\ fault' = flt
             /\ indices' = r.indices
             /\ calls' = calls \o r.calls
             /\ IF r.ret
                THEN pc' = next /\ UNCHANGED exitCode
                ELSE Exit(1)
    /\ UNCHANGED <<es_host, api_key, es, clientOpen, mappingFile,
                   ubi_queries_mapping, openFiles, bulkEnv, bulkRet, parserVars>>

\* The number of requests helpers.bulk sent for `sent` documents.
BulkCalls(r) ==
    IF r.sent = 0
    THEN <<Call("bulk", None, Res(r.raised))>>
    ELSE [k \in 1..((r.sent + chunk_size - 1) \div chunk_size) |->
             Call("bulk", None, "ok")]

\* main(), lines 185-188: parse the NDJSON file, submit the documents, exit.
BulkIndexDocuments ==
    /\ pc = "bulk"
    /\ \E file \in {MissingFile} \cup
                   {FileOf(ls) : ls \in SeqsUpTo(FileLineValues, MaxFileLines)} :
          LET p == parse_ndjson_for_bulk(file) IN
          /\ ndjson' = file
          /\ ppc' = "returned"
          /\ lines' = file.content
          /\ i' = p.p.i
          /\ documents' = p.p.documents
          /\ warnings' = p.p.warnings
          /\ parsed' = IF p.none THEN "None" ELSE "list"
          /\ openFiles' = IF file.exists THEN WithOpen(openFiles, "ndjson")
                          ELSE openFiles
          /\ \E outcome \in BulkOutcomes(p.documents) :
                LET b == bulk_index_documents(p, outcome) IN
                /\ bulkEnv' = IF b.called
                              THEN [called |-> TRUE,
                                    transport_ok |-> outcome.transport_ok,
                                    rejected |-> outcome.rejected]
                              ELSE NoBulk
                /\ bulkRet' = b.result
                /\ calls' = IF b.called THEN calls \o BulkCalls(b.result) ELSE calls
                /\ indices' = IF b.called
                              THEN IndexDocs(indices, p.documents, b.result.sent,
                                             outcome.rejected)
                              ELSE indices
                /\ Exit(IF b.ret THEN 0 ELSE 1)
    /\ UNCHANGED <<es_host, api_key, es, clientOpen, mappingFile,
                   ubi_queries_mapping, fault>>

Next ==
    \/ CheckEnv
    \/ Connect
    \/ ReadMapping("read1", "read2")
    \/ ReadMapping("read2", "create_events")
    \/ CreateIndex("create_events", ubi_events, "create_queries")
    \/ CreateIndex("create_queries", ubi_queries, "bulk")
    \/ BulkIndexDocuments

Spec == Init /\ [][Next]_vars

(***************************************************************************)
(* parse_ndjson_for_bulk on its own, one action per loop iteration.        *)
(***************************************************************************)
InitParser ==
    /\ MainStart
    /\ es_host = "set"
    /\ api_key = "set"
    /\ mappingFile = "m1"
    /\ indices = [n \in IndexNames |-> NoIndexState]
    /\ ndjson \in {MissingFile} \cup
                  {FileOf(ls) : ls \in SeqsUpTo(LineValues, MaxLines)}
    /\ ppc = "call"
    /\ lines = <<>>
    /\ i = 0
    /\ documents = <<>>
    /\ warnings = <<>>
    /\ parsed = "pending"

\* Lines 66-70, and the FileNotFoundError handler of lines 103-105.
ReadLines ==
    /\ ppc = "call"
    /\ IF ndjson.exists
       THEN /\ lines' = ndjson.content
            /\ ppc' = "loop"
            /\ openFiles' = WithOpen(openFiles, "ndjson")
            /\ UNCHANGED parsed
       ELSE /\ ppc' = "returned"
            /\ parsed' = "None"
            /\ UNCHANGED <<lines, openFiles>>
    /\ i' = 0
    /\ documents' = <<>>
    /\ UNCHANGED <<pc, exitCode, es_host, api_key, es, clientOpen, mappingFile,
                   ubi_queries_mapping, indices, calls, fault, bulkEnv,
                   bulkRet, ndjson, warnings>>

\* One iteration of the loop of lines 71-98; an exception that is not a
\* JSONDecodeError reaches the handler of lines 106-108.
LoopIteration ==
    /\ ppc = "loop"
    /\ i < Len(lines)
    /\ LET p == LoopBody(lines, [i |-> i, documents |-> documents,
                                 warnings |-> warnings, st |-> "loop"]) IN
          /\ i' = p.i
          /\ documents' = p.documents
          /\ warnings' = p.warnings
          /\ IF p.st = "raised"
             THEN ppc' = "returned" /\ parsed' = "None"
             ELSE UNCHANGED <<ppc, parsed>>
    /\ UNCHANGED <<mainVars, ndjson, lines>>

\* Lines 100-101: the loop is over, the documents are returned.
ReturnDocuments ==
    /\ ppc = "loop"
    /\ i >= Len(lines)
    /\ ppc' = "returned"
    /\ parsed' = "list"
    /\ UNCHANGED <<mainVars, ndjson, lines, i, documents, warnings>>

NextParser ==
    \/ ReadLines
    \/ LoopIteration
    \/ ReturnDocuments

\* The interpreter always runs the next statement.
SpecParser == InitParser /\ [][NextParser]_vars /\ WF_vars(NextParser)

(***************************************************************************)
(* Properties of parse_ndjson_for_bulk, checked under SpecParser.          *)
(***************************************************************************)
\* A line {"index": {"_index": s, "_id": t}}.
IsActionLine(l) ==
    /\ l.text = "json"
    /\ l.val.ty = "dict"
    /\ l.val.index.ty = "dict"
    /\ l.val.index._index # Absent
    /\ l.val.index._id # Absent

IsJsonLine(l) == l.text = "json"

\* N action/document pairs and nothing else.
WellFormed(ls) ==
    /\ Len(ls) % 2 = 0
    /\ \A k \in 1..(Len(ls) \div 2) :
          IsActionLine(ls[2 * k - 1]) /\ IsJsonLine(ls[2 * k])

\* The record of the action line ls[k] and the line after it.
RecordAt(ls, k) ==
    [_index |-> ls[k].val.index._index,
     _id |-> ls[k].val.index._id,
     _source |-> ls[k + 1].val]

ExpectedRecords(ls) == [k \in 1..(Len(ls) \div 2) |-> RecordAt(ls, 2 * k - 1)]

\* C1: on a file made of N well-formed action/document pairs the parser
\* returns exactly N records, in input order, the k-th one carrying the
\* _index and _id of the k-th action line and the k-th document as _source.
C1_PairsInOrder ==
    (ppc = "returned" /\ ndjson.exists /\ WellFormed(ndjson.content)) =>
        /\ parsed = "list"
        /\ documents = ExpectedRecords(ndjson.content)

C1_Witness ==
    /\ ppc = "returned"
    /\ ndjson.exists
    /\ WellFormed(ndjson.content)
    /\ Len(documents) = 2
    /\ documents[1] # documents[2]

\* C6: the parser returns None only when the file cannot be opened; on every
\* file it can read it returns a list, whatever the lines hold.
C6_NoneOnlyIfUnopenable ==
    (ppc = "returned" /\ ndjson.exists) => parsed = "list"

\* C8: every record emitted carries the _index and _id of an action line of
\* the input and the content of the line right after it; none has a None
\* _index or _id.
C8_RecordsFromActions ==
    \A k \in DOMAIN documents :
        /\ documents[k]._index # None
        /\ documents[k]._id # None
        /\ \E j \in 1..(Len(lines) - 1) :
              /\ IsActionLine(lines[j])
              /\ IsJsonLine(lines[j + 1])
              /\ documents[k] = RecordAt(lines, j)

InsertAt(ls, k, l) == SubSeq(ls, 1, k) \o <<l>> \o SubSeq(ls, k + 1, Len(ls))

\* C9: inserting an empty or whitespace-only line anywhere in the input,
\* also between an action line and its document line, does not change the
\* sequence of records the parser returns for it.  Stated for the inputs
\* made of well-formed action/document pairs.
C9_BlankLinesIgnored ==
    (ppc = "returned" /\ parsed = "list" /\ WellFormed(lines)) =>
        \A k \in 0..Len(lines) : \A b \in {EmptyLine, WsLine} :
            LET r == parse_ndjson_for_bulk(FileOf(InsertAt(lines, k, b))) IN
            ~r.none /\ r.documents = documents

\* What an iteration that returns to the loop head does to the cursor.
C10_Step ==
    (ppc = "loop" /\ ppc' = "loop") =>
        LET adv == i' - i
            emitted == Len(documents') - Len(documents)
            badAction == ~json_loads(strip(lines[i + 1])).ok
            orphan == i + 1 = Len(lines)
            badDoc == ~orphan /\ ~json_loads(strip(lines[i + 2])).ok
        IN
        /\ adv \in {1, 2}
        /\ emitted \in {0, 1}
        /\ adv = 2 <=> emitted = 1
        /\ (badAction \/ orphan \/ badDoc) <=> adv = 1
        /\ i' <= Len(lines)

C2_PartialFailureIsSuccess ==
    (pc = "exited" /\ bulkEnv.called /\ bulkEnv.transport_ok
        /\ bulkEnv.rejected # {}
        /\ \A k \in DOMAIN documents : documents[k]._index \in IndexNames) =>
        /\ ~bulkRet.raised
        /\ bulkRet.failed_items # {}
        /\ exitCode = 0

\* C3: with ES_HOST or API_KEY unset or empty the process does nothing but
\* exit with a non-zero code: no client is built and no call is made.
C3_MissingEnvNoNetwork ==
    (es_host \in {None, ""} \/ api_key \in {None, ""}) =>
        /\ calls = <<>>
        /\ ~clientOpen
        /\ pc \in {"start", "exited"}
        /\ pc = "exited" => exitCode = 1

C3_Witness ==
    /\ pc = "exited"
    /\ exitCode = 1
    /\ es_host = "set"
    /\ api_key = ""

\* What a create_index call without an injected fault does, from any prior
\* state of the index.
C4_Step(at, name) ==
    (pc = at /\ pc' # at /\ fault' = "none") =>
        LET new == SubSeq(calls', Len(calls) + 1, Len(calls'))
            again == create_index(indices', name, ubi_queries_mapping, "none")
        IN
        /\ new = IF indices[name].exists
                 THEN <<Call("exists", name, "ok"), Call("delete", name, "ok"),
                        Call("create", name, "ok")>>
                 ELSE <<Call("exists", name, "ok"), Call("create", name, "ok")>>
        /\ pc' # "exited"
        /\ indices'[name] =
              [exists |-> TRUE, mapping |-> ubi_queries_mapping, docs |-> {}]
        /\ \A n \in IndexNames \ {name} : indices'[n] = indices[n]
        /\ again.ret
        /\ again.indices = indices'

\* C4: when no cluster call raises, create_index checks existence, deletes
\* the index only if it exists and before creating it, creates it and
\* returns True; the index then has the given mapping and no document, and
\* a second call returns True and leaves the same index state.
C4_CreateIsIdempotent ==
    [][/\ C4_Step("create_events", ubi_events)
       /\ C4_Step("create_queries", ubi_queries)]_vars

C4_Witness ==
    /\ pc = "create_queries"
    /\ fault = "none"
    /\ \E k \in DOMAIN calls : calls[k] = Call("delete", ubi_events, "ok")
    /\ indices[ubi_events] =
          [exists |-> TRUE, mapping |-> ubi_queries_mapping, docs |-> {}]

Before(k, c) == \E j \in 1..(k - 1) : calls[j] = c

\* C5: main() is fail-fast: a failed connection or create_index call is the
\* last call made and the exit code is non-zero; index calls come only
\* after a successful ping, calls on ubi_queries only after ubi_events was
\* created, a bulk write only after both were created, in that order.
C5_FailFast ==
    \A k \in DOMAIN calls :
        /\ (calls[k].op # "bulk" /\ calls[k].res # "ok") =>
              k = Len(calls) /\ pc = "exited" /\ exitCode = 1
        /\ calls[k].op \in {"exists", "delete", "create", "bulk"} =>
              Before(k, Call("ping", None, "ok"))
        /\ calls[k].index = ubi_queries =>
              Before(k, Call("create", ubi_events, "ok"))
        /\ calls[k].op = "bulk" =>
              \E a \in 1..(k - 1) : \E b \in (a + 1)..(k - 1) :
                  /\ calls[a] = Call("create", ubi_events, "ok")
                  /\ calls[b] = Call("create", ubi_queries, "ok")

C5_Witness ==
    /\ pc = "exited"
    /\ \E k \in DOMAIN calls : calls[k].op = "bulk"

\* C7: when the process exits, the client session connect_to_elasticsearch
\* returned is closed and no file handle is open.
C7_ResourcesReleased ==
    pc = "exited" =>
        /\ es = "client" => ~clientOpen
        /\ openFiles = {}

====
